---- MODULE Spec2Model ----
(***************************************************************************)
(* axum-limit: per-key token-bucket rate limiting (src/src/lib.rs).        *)
(*                                                                         *)
(* Time is counted in ticks of 1/TicksPerMilli millisecond, so that the    *)
(* truncation of Duration::as_millis in TokenBucket::refill is visible.    *)
(* Requests are concurrent; each one runs Limit::from_request_parts, which *)
(* extracts the key, calls LimitState::check and maps the result.  check   *)
(* holds the DashMap shard write lock of its key from entry() until the    *)
(* RefMut is dropped at the end of the function.                           *)
(*                                                                         *)
(* tokens is a usize and elapsed_millis a u64; within the bounds below     *)
(* neither comes near its width, so they are modelled as naturals.  The    *)
(* integer division by a zero refill_duration_millis panics in Rust; the   *)
(* panic unwinds through check, dropping the RefMut and with it the lock.  *)
(***************************************************************************)
EXTENDS Integers, Sequences, FiniteSets, Bags, TLC

\* ------------------------------------------------------------------ bounds
MaxTime == 4
MaxRequests == 3
MaxCount == 1
MaxPer == 2
TicksPerMilli == 2

Keys == {"k1", "k2"}
Shards == {"s1", "s2"}
Counts == 0..MaxCount
Pers == 0..MaxPer
ExtractorRejections == {"rej1", "rej2"}
NoKey == "nokey"
NoRejection == "norej"

VARIABLES
  now,          \* the monotonic clock Instant::now(), in ticks
  rate_limits,  \* LimitState.rate_limits: the DashMap, a function on the present keys
  shard_of,     \* the DashMap's placement of keys in shards (fixed by the hasher)
  shard_lock,   \* per shard: whether a RefMut holds its write lock
  inflight,     \* the bag of requests inside from_request_parts
  started,      \* the number of requests that have arrived
  failure,      \* the KeyExtractionFailure returned last: its rejection
  log,          \* per key: the try_acquire calls made on its bucket, in order
  seeds         \* per key: the TokenBucket::new calls made for it

vars == <<now, rate_limits, shard_of, shard_lock, inflight, started, failure, log, seeds>>

\* ------------------------------------------------------- std::time::Duration
\* Duration::from_millis
from_millis(ms) == ms * TicksPerMilli

\* Duration::as_millis (whole milliseconds, truncating)
as_millis(d) == d \div TicksPerMilli

\* Instant::duration_since (saturating at zero)
duration_since(later, earlier) == IF later >= earlier THEN later - earlier ELSE 0

\* ------------------------------------------------------------- TokenBucket
\* a constructor that forgets the quota: the bucket starts without a token
TokenBucket_new_empty(tokens, per, t) ==
  [tokens |-> 0, last_refill_time |-> t, refill_duration |-> from_millis(per)]

\* TokenBucket::new, called at instant t
TokenBucket_new(tokens, per, t) ==
  [tokens |-> tokens, last_refill_time |-> t, refill_duration |-> from_millis(per)]

\* a refill without its test: it runs on every call
RefillDueAlways(b, t) == TRUE

\* refill's test `elapsed >= self.refill_duration`
RefillDue(b, t) == duration_since(t, b.last_refill_time) >= b.refill_duration

\* refill's divisions `elapsed_millis / refill_duration_millis` and `%` panic
\* when the divisor is zero
DivideByZero(b, t) == RefillDue(b, t) /\ as_millis(b.refill_duration) = 0

\* a refill that credits every elapsed period twice
new_tokens_twice(elapsed_millis, refill_duration_millis) ==
  2 * (elapsed_millis \div refill_duration_millis)

\* a refill that credits one token however long the bucket was idle
new_tokens_one(elapsed_millis, refill_duration_millis) == 1

\* refill's `new_tokens`
new_tokens(elapsed_millis, refill_duration_millis) ==
  elapsed_millis \div refill_duration_millis

\* TokenBucket::refill at instant t (where it does not panic)
refill(b, t) ==
  IF RefillDue(b, t)
  THEN LET elapsed_millis == as_millis(duration_since(t, b.last_refill_time))
           refill_duration_millis == as_millis(b.refill_duration)
       IN [b EXCEPT !.tokens = @ + new_tokens(elapsed_millis, refill_duration_millis),
                    !.last_refill_time =
                        t - from_millis(elapsed_millis % refill_duration_millis)]
  ELSE b

\* an off-by-one test, `self.tokens >= 0`
HasTokenOrZero(b) == b.tokens >= 0

\* try_acquire after the refill: whether a token is there to take
HasToken(b) == b.tokens > 0

\* a try_acquire that forgets `self.tokens -= 1`
take_nothing(b) == b

\* try_acquire after the refill: the bucket it leaves
take(b) == IF HasToken(b) THEN [b EXCEPT !.tokens = @ - 1] ELSE b

\* TokenBucket::try_acquire at instant t: <<bucket after, result>>
try_acquire(b, t) ==
  IF DivideByZero(b, t)
  THEN <<b, "panic">>
  ELSE LET r == refill(b, t)
       IN <<take(r), IF HasToken(r) THEN "admit" ELSE "reject">>

\* ---------------------------------------------------------------- DashMap
\* `insert` in place of `or_insert_with`: the bucket is constructed on every call
insert_always(map, key, bucket) ==
  (key :> bucket) @@ [k \in DOMAIN map \ {key} |-> map[k]]

\* an insertion that replaces the map by one holding the new key alone
insert_alone(map, key, bucket) ==
  IF key \in DOMAIN map THEN map ELSE (key :> bucket)

\* Entry::or_insert_with: the map after entry(key).or_insert_with(|| bucket)
or_insert_with(map, key, bucket) ==
  IF key \in DOMAIN map THEN map ELSE (key :> bucket) @@ map

\* a map guarded by one mutex: entry blocks while any shard is write-locked
CanLockGlobal(key) == \A s \in Shards : ~shard_lock[s]

\* DashMap::entry blocks while the key's shard is write-locked
CanLock(key) == ~shard_lock[shard_of[key]]

\* ------------------------------------------------------- from_request_parts
\* the Result from_request_parts builds from what check does
Outcome(result) ==
  CASE result = "admit" -> "Ok"
    [] result = "reject" -> "RateLimitExceeded"
    [] OTHER -> "Panic"

\* LimitRejection::into_response
into_response(outcome, rejection) ==
  CASE outcome = "RateLimitExceeded" ->
         [status |-> "429 Too Many Requests", body |-> "Rate limit exceeded."]
    [] outcome = "KeyExtractionFailure" ->
         [status |-> "of the rejection", body |-> rejection]

\* a request between key extraction and the end of check
Request(key, count, per, arrived) ==
  [key |-> key, count |-> count, per |-> per, pc |-> "extracted", arrived |-> arrived,
   checks |-> 0]

Put(bag, r) == bag (+) SetToBag({r})
Remove(bag, r) == bag (-) SetToBag({r})

\* ------------------------------------------------------------------ actions
Init ==
  /\ now = 0
  /\ rate_limits = <<>>
  /\ shard_of \in {f \in [Keys -> Shards] : f["k1"] = "s1"}
  /\ shard_lock = [s \in Shards |-> FALSE]
  /\ inflight = EmptyBag
  /\ started = 0
  /\ failure = NoRejection
  /\ log = [k \in Keys |-> <<>>]
  /\ seeds = [k \in Keys |-> <<>>]

\* the clock advances
Tick ==
  /\ now < MaxTime
  /\ now' = now + 1
  /\ UNCHANGED <<rate_limits, shard_of, shard_lock, inflight, started, failure, log, seeds>>

\* from_request_parts, key extraction succeeds: K::from_extractor gives the key
ExtractOk(key, count, per) ==
  /\ started < MaxRequests
  /\ started' = started + 1
  /\ inflight' = Put(inflight, Request(key, count, per, Len(log[key])))
  /\ UNCHANGED <<now, rate_limits, shard_of, shard_lock, failure, log, seeds>>

\* a from_request_parts that calls check before it looks at the extraction's result
ExtractErrAfterCheck(rejection) ==
  /\ started < MaxRequests
  /\ started' = started + 1
  /\ failure' = rejection
  /\ LET map == or_insert_with(rate_limits, "k1", TokenBucket_new(1, 1, now))
     IN rate_limits' = [map EXCEPT !["k1"] = try_acquire(map["k1"], now)[1]]
  /\ UNCHANGED <<now, shard_of, shard_lock, inflight, log, seeds>>

\* from_request_parts, key extraction fails: return Err(KeyExtractionFailure(rejection))
ExtractErr(rejection) ==
  /\ started < MaxRequests
  /\ started' = started + 1
  /\ failure' = rejection
  /\ UNCHANGED <<now, rate_limits, shard_of, shard_lock, inflight, log, seeds>>

\* check, first statement: entry(key) takes the shard lock, or_insert_with
\* constructs the bucket when the key is absent.  seeds records the quota and
\* the instant of each TokenBucket::new whose bucket was stored in the map.
CheckEntry(r) ==
  /\ r.pc = "extracted"
  /\ CanLock(r.key)
  /\ shard_lock' = [shard_lock EXCEPT ![shard_of[r.key]] = TRUE]
  /\ rate_limits' = or_insert_with(rate_limits, r.key, TokenBucket_new(r.count, r.per, now))
  /\ seeds' = IF r.key \notin DOMAIN rate_limits \/ rate_limits'[r.key] # rate_limits[r.key]
              THEN [seeds EXCEPT ![r.key] =
                      Append(@, [count |-> r.count, per |-> r.per, at |-> now])]
              ELSE seeds
  /\ inflight' = Put(Remove(inflight, r), [r EXCEPT !.pc = "locked", !.checks = @ + 1])
  /\ UNCHANGED <<now, shard_of, started, failure, log>>

\* a check that calls try_acquire on a copy of the bucket, not through the RefMut
CheckTryAcquireOnCopy(r) ==
  LET b == rate_limits[r.key]
      res == try_acquire(b, now)
      seed == seeds[r.key][Len(seeds[r.key])]
  IN
  /\ r.pc = "locked"
  /\ shard_lock' = [shard_lock EXCEPT ![shard_of[r.key]] = FALSE]
  /\ inflight' = Remove(inflight, r)
  /\ log' = [log EXCEPT ![r.key] =
               Append(@, [t |-> now, result |-> res[2], pre |-> b.tokens,
                          due |-> RefillDue(b, now), arrived |-> r.arrived,
                          same |-> (r.count = seed.count /\ r.per = seed.per),
                          checks |-> r.checks, outcome |-> Outcome(res[2]),
                          left |-> b.tokens, last |-> b.last_refill_time])]
  /\ UNCHANGED <<now, rate_limits, shard_of, started, failure, seeds>>

\* check, second statement: bucket.try_acquire(); the RefMut is dropped (also
\* when refill panics) and from_request_parts maps the result.  The log entry
\* records the instant, the tokens before (pre) and after (left) the call,
\* whether a refill was due and last_refill_time after the call (last).
CheckTryAcquire(r) ==
  LET b == rate_limits[r.key]
      res == try_acquire(b, now)
      seed == seeds[r.key][Len(seeds[r.key])]
  IN
  /\ r.pc = "locked"
  /\ rate_limits' = [rate_limits EXCEPT ![r.key] = res[1]]
  /\ shard_lock' = [shard_lock EXCEPT ![shard_of[r.key]] = FALSE]
  /\ inflight' = Remove(inflight, r)
  /\ log' = [log EXCEPT ![r.key] =
               Append(@, [t |-> now, result |-> res[2], pre |-> b.tokens,
                          due |-> RefillDue(b, now), arrived |-> r.arrived,
                          same |-> (r.count = seed.count /\ r.per = seed.per),
                          checks |-> r.checks, outcome |-> Outcome(res[2]),
                          left |-> res[1].tokens,
                          last |-> res[1].last_refill_time])]
  /\ UNCHANGED <<now, shard_of, started, failure, seeds>>

Next ==
  \/ Tick
  \/ \E k \in Keys, c \in Counts, p \in Pers : ExtractOk(k, c, p)
  \/ \E rej \in ExtractorRejections : ExtractErr(rej)
  \/ \E r \in BagToSet(inflight) : CheckEntry(r)
  \/ \E r \in BagToSet(inflight) : CheckTryAcquire(r)

Spec == Init /\ [][Next]_vars

\* ------------------------------------------------------ auxiliary notions
TypeOK ==
  /\ now \in 0..MaxTime
  /\ DOMAIN rate_limits \subseteq Keys
  /\ \A k \in DOMAIN rate_limits : rate_limits[k].tokens >= 0
  /\ started \in 0..MaxRequests
  /\ failure \in ExtractorRejections \cup {NoRejection}

\* the keys for which a bucket was constructed, and the first construction
Seeded == {k \in Keys : Len(seeds[k]) >= 1}
Seed(k) == seeds[k][1]

\* the try_acquire calls on key k that returned admit
Admits(k) == {i \in DOMAIN log[k] : log[k][i].result = "admit"}

Min(a, b) == IF a <= b THEN a ELSE b

\* the bucket of key k, as a sequence of length 0 (absent) or 1
BucketOf(k) == IF k \in DOMAIN rate_limits THEN <<rate_limits[k]>> ELSE <<>>

\* the sequential token bucket: try_acquire applied to bucket b at the instants
\* of entries i.. of a log; <<the bucket left, the results>>
RECURSIVE SerialRun(_, _, _)
SerialRun(b, entries, i) ==
  IF i > Len(entries)
  THEN <<b, <<>>>>
  ELSE LET res == try_acquire(b, entries[i].t)
           rest == SerialRun(res[1], entries, i + 1)
       IN <<rest[1], <<res[2]>> \o rest[2]>>

\* ---------------------------------------------------------------------- C1
\* C1: for a key whose bucket was created with count N >= 1 and period T > 0,
\* among the check calls made with no time elapsed since the creation the
\* first N return admit and the (N+1)-th returns reject.
C1_FirstNAdmitted ==
  \A k \in Seeded :
    (Seed(k).count >= 1 /\ Seed(k).per > 0) =>
      \A i \in DOMAIN log[k] :
        log[k][i].t = Seed(k).at =>
          /\ i <= Seed(k).count => log[k][i].result = "admit"
          /\ i = Seed(k).count + 1 => log[k][i].result = "reject"

\* C1 witness: N+1 calls were made at the instant of creation
C1_Witness ==
  \E k \in Seeded :
    /\ Seed(k).count >= 1 /\ Seed(k).per > 0
    /\ Len(log[k]) >= Seed(k).count + 1
    /\ log[k][Seed(k).count + 1].t = Seed(k).at
    /\ log[k][Seed(k).count + 1].result = "reject"

\* ---------------------------------------------------------------------- C2
\* C2: for a key with quota (COUNT, PER), no time window of length PER holds
\* more than COUNT admitted requests.  Stated for the keys all of whose calls
\* used the one quota COUNT >= 1, PER >= 1 and whose first call ran at the
\* instant the bucket was created.
C2_WindowQuota ==
  \A k \in Seeded :
    ( /\ Seed(k).count >= 1 /\ Seed(k).per >= 1
      /\ \A i \in DOMAIN log[k] : log[k][i].same
      /\ log[k] # <<>> /\ log[k][1].t = Seed(k).at ) =>
      \A w \in 0..MaxTime :
        Cardinality({i \in Admits(k) :
                       w <= log[k][i].t /\ log[k][i].t < w + from_millis(Seed(k).per)})
          <= Seed(k).count

\* ---------------------------------------------------------------------- C3
\* C3: after a check on a key returned reject, if at least n periods of its
\* bucket elapse before the next check on the key, that check and the ones
\* after it, n in all, return admit (n = 1: waiting one period admits one).
C3_RefillAfterExhaustion ==
  \A k \in DOMAIN rate_limits :
    \A i \in DOMAIN log[k], n \in 1..MaxRequests :
      ( /\ log[k][i].result = "reject"
        /\ i < Len(log[k])
        /\ log[k][i + 1].t - log[k][i].t >= n * rate_limits[k].refill_duration ) =>
        \A j \in (i + 1)..Min(i + n, Len(log[k])) : log[k][j].result = "admit"

\* C3 witness: a reject, then two periods without a call, then two admits
C3_Witness ==
  \E k \in DOMAIN rate_limits :
    \E i \in DOMAIN log[k] :
      /\ log[k][i].result = "reject"
      /\ i + 2 <= Len(log[k])
      /\ rate_limits[k].refill_duration > 0
      /\ log[k][i + 1].t - log[k][i].t >= 2 * rate_limits[k].refill_duration
      /\ log[k][i + 1].result = "admit"
      /\ log[k][i + 2].result = "admit"

\* ---------------------------------------------------------------------- C4
\* C4: when a check finds exactly one token in the bucket with no refill due,
\* it returns admit, and every check on the key that was already running then
\* and runs at the same instant returns reject.
C4_OneTokenOneAdmit ==
  \A k \in Keys :
    \A i \in DOMAIN log[k] :
      (log[k][i].pre = 1 /\ ~log[k][i].due) =>
        /\ log[k][i].result = "admit"
        /\ \A j \in DOMAIN log[k] :
             (j > i /\ log[k][j].arrived < i /\ log[k][j].t = log[k][i].t) =>
               log[k][j].result = "reject"

\* C4 witness: three concurrent checks met one token; one admit, two rejects
C4_Witness ==
  \E k \in Keys :
    \E i \in DOMAIN log[k] :
      /\ log[k][i].pre = 1 /\ ~log[k][i].due /\ log[k][i].result = "admit"
      /\ i + 2 <= Len(log[k])
      /\ \A j \in {i + 1, i + 2} :
           /\ log[k][j].arrived < i /\ log[k][j].t = log[k][i].t
           /\ log[k][j].result = "reject"

\* ---------------------------------------------------------------------- C5
\* C5: a key has at most one bucket constructed for it, the bucket is seeded
\* with tokens = count, and when all n checks made so far on the key arrived
\* before its first try_acquire and ran with no time elapsed since the
\* creation, min(n, count) of them were admitted and count - min(n, count)
\* tokens are left.
C5_RacingCreation ==
  \A k \in Keys :
    /\ Len(seeds[k]) <= 1
    /\ k \in DOMAIN rate_limits <=> Len(seeds[k]) = 1
    /\ (k \in Seeded /\ log[k] = <<>>) => rate_limits[k].tokens = Seed(k).count
    /\ ( /\ k \in Seeded
         /\ \A i \in DOMAIN log[k] : log[k][i].arrived = 0 /\ log[k][i].t = Seed(k).at ) =>
         /\ Cardinality(Admits(k)) = Min(Len(log[k]), Seed(k).count)
         /\ rate_limits[k].tokens = Seed(k).count - Min(Len(log[k]), Seed(k).count)

\* The same for the keys whose bucket was created with a period > 0.
C5_RacingCreationNonZeroPeriod ==
  \A k \in Keys :
    /\ Len(seeds[k]) <= 1
    /\ k \in DOMAIN rate_limits <=> Len(seeds[k]) = 1
    /\ (k \in Seeded /\ log[k] = <<>>) => rate_limits[k].tokens = Seed(k).count
    /\ ( /\ k \in Seeded /\ Seed(k).per > 0
         /\ \A i \in DOMAIN log[k] : log[k][i].arrived = 0 /\ log[k][i].t = Seed(k).at ) =>
         /\ Cardinality(Admits(k)) = Min(Len(log[k]), Seed(k).count)
         /\ rate_limits[k].tokens = Seed(k).count - Min(Len(log[k]), Seed(k).count)

\* three checks raced for a key that was absent when each arrived
C5_RaceReached ==
  \E k \in Seeded :
    /\ Seed(k).per > 0 /\ Seed(k).count = 1
    /\ Len(log[k]) = 3
    /\ \A i \in DOMAIN log[k] : log[k][i].arrived = 0 /\ log[k][i].t = Seed(k).at

\* ---------------------------------------------------------------------- C6
\* C6: a step of a check call for key a (its entry or its try_acquire) leaves
\* the bucket, the outcomes and the seed of every other key b unchanged.
C6_Frame ==
  \A a \in Keys :
    (\E r \in BagToSet(inflight) : r.key = a /\ (CheckEntry(r) \/ CheckTryAcquire(r))) =>
      \A b \in Keys \ {a} :
        /\ BucketOf(b)' = BucketOf(b)
        /\ log'[b] = log[b]
        /\ seeds'[b] = seeds[b]

\* C6: every step keeps the frame C6_Frame: calls with distinct keys never
\* affect each other's bucket or outcomes, in every interleaving.
C6_DistinctKeysIndependent == [][C6_Frame]_vars

\* C6 witness: a check for key a ran while two checks for key b were running;
\* a was admitted, and b had its one admit and its reject
C6_Witness ==
  \E a \in Keys, b \in Keys :
    /\ a # b
    /\ Len(log[a]) = 1 /\ log[a][1].result = "admit"
    /\ Len(log[b]) = 2 /\ log[b][1].result = "admit" /\ log[b][2].result = "reject"
    /\ log[b][2].arrived = 0
    /\ rate_limits[a].tokens = Seed(a).count - 1

\* ---------------------------------------------------------------------- C7
\* C7: a bucket is constructed once, keeps the refill period of the quota it
\* was created with, and its state and every outcome on its key are those of
\* the sequential token bucket of that original quota run at the instants of
\* the calls, whatever quota each call named.
C7_FirstQuotaGoverns ==
  \A k \in DOMAIN rate_limits :
    /\ Len(seeds[k]) = 1
    /\ rate_limits[k].refill_duration = from_millis(Seed(k).per)
    /\ LET run == SerialRun(TokenBucket_new(Seed(k).count, Seed(k).per, Seed(k).at),
                            log[k], 1)
       IN /\ run[1] = rate_limits[k]
          /\ run[2] = [i \in DOMAIN log[k] |-> log[k][i].result]

\* C7 witness: a call named another quota than the bucket's, and a later call
\* on the key was decided
C7_Witness ==
  \E k \in DOMAIN rate_limits :
    /\ Len(log[k]) = 3
    /\ log[k][1].result = "admit"
    /\ ~log[k][2].same /\ log[k][2].result = "reject"
    /\ log[k][3].result = "admit"

\* ---------------------------------------------------------------------- C8
\* C8: no bucket with a zero refill period is ever created, and no check
\* reaches refill's division with a zero period.
C8_ZeroPeriodRejected ==
  /\ \A k \in DOMAIN rate_limits : rate_limits[k].refill_duration > 0
  /\ \A k \in Keys : \A i \in DOMAIN log[k] : log[k][i].result # "panic"

\* ---------------------------------------------------------------------- C9
\* C9: a step in which a request arrives and its key extraction fails (it
\* does not enter check) leaves the registry as it was, buckets, tokens and
\* locks, and returns KeyExtractionFailure with one of the extractor's
\* rejections, whose response is the rejection's own.
C9_Step ==
  (started' = started + 1 /\ inflight' = inflight) =>
    /\ rate_limits' = rate_limits
    /\ shard_lock' = shard_lock
    /\ log' = log /\ seeds' = seeds
    /\ failure' \in ExtractorRejections
    /\ into_response("KeyExtractionFailure", failure').body = failure'

\* C9: every step satisfies C9_Step: a failed key extraction never invokes
\* check and never changes the registry.
C9_ExtractionFailureNoCheck == [][C9_Step]_vars

\* C9 witness: an extraction failed after a bucket had been created and used
C9_Witness ==
  /\ failure \in ExtractorRejections
  /\ \E k \in DOMAIN rate_limits : Len(log[k]) = 2 /\ rate_limits[k].tokens = 0
  /\ started = 3

\* --------------------------------------------------------------------- C10
\* C10: every request whose key was extracted called check exactly once and
\* ended either Ok, exactly when check returned admit, or RateLimitExceeded
\* (429), a response other than that of a key extraction failure.
C10_TwoOutcomes ==
  \A k \in Keys :
    \A i \in DOMAIN log[k] :
      /\ log[k][i].checks = 1
      /\ log[k][i].outcome \in {"Ok", "RateLimitExceeded"}
      /\ log[k][i].outcome = "Ok" <=> log[k][i].result = "admit"
      /\ log[k][i].outcome = "RateLimitExceeded" =>
           \A rej \in ExtractorRejections :
             into_response("RateLimitExceeded", NoRejection)
               # into_response("KeyExtractionFailure", rej)

\* The same for the requests on keys whose bucket has a period > 0.
C10_TwoOutcomesNonZeroPeriod ==
  \A k \in DOMAIN rate_limits :
    rate_limits[k].refill_duration > 0 =>
      \A i \in DOMAIN log[k] :
        /\ log[k][i].checks = 1
        /\ log[k][i].outcome \in {"Ok", "RateLimitExceeded"}
        /\ log[k][i].outcome = "Ok" <=> log[k][i].result = "admit"

\* --------------------------------------------------------------------- C11
\* the orders of the n completed calls on a key: call x runs p[x]-th
SerialOrders(n) == {p \in [1..n -> 1..n] : \A x, y \in 1..n : x # y => p[x] # p[y]}

\* the calls of a log in the serial order p
InOrder(entries, p) ==
  [q \in 1..Len(entries) |-> entries[CHOOSE x \in 1..Len(entries) : p[x] = q]]

\* order p keeps the real-time order: a call that had returned when another
\* arrived runs before it
KeepsRealTime(entries, p) ==
  \A x, y \in 1..Len(entries) : x <= entries[y].arrived => p[x] < p[y]

\* C11: for every key there is a serial order of its completed check calls
\* that keeps their real-time order and in which the sequential token bucket,
\* started from the bucket as constructed, returns to every call the outcome
\* it got and ends in the bucket's present state.
C11_Linearizable ==
  \A k \in DOMAIN rate_limits :
    \E p \in SerialOrders(Len(log[k])) :
      /\ KeepsRealTime(log[k], p)
      /\ LET calls == InOrder(log[k], p)
             run == SerialRun(TokenBucket_new(Seed(k).count, Seed(k).per, Seed(k).at),
                              calls, 1)
         IN /\ run[1] = rate_limits[k]
            /\ run[2] = [q \in 1..Len(calls) |-> calls[q].result]

\* C11 witness: three calls on one key overlapped in time, one was admitted
\* and two were rejected
C11_Witness ==
  \E k \in DOMAIN rate_limits :
    /\ Len(log[k]) = 3
    /\ \A i \in 1..3 : log[k][i].arrived = 0
    /\ Cardinality(Admits(k)) = 1
    /\ Seed(k).per > 0

\* --------------------------------------------------------------------- C12
\* the calls of key k that saturated its bucket: they left it without a token
Saturating(k) == {i \in DOMAIN log[k] : log[k][i].result # "panic" /\ log[k][i].left = 0}

\* the length of the quota window of key k: count * period
QuotaWindow(k) == Seed(k).count * from_millis(Seed(k).per)

\* the calls of key k after its i-th admitted in the trailing window (lo, hi]
AdmitsWithin(k, i, lo, hi) ==
  {j \in Admits(k) : j > i /\ lo < log[k][j].t /\ log[k][j].t <= hi}

FirstWindow(k) ==
  {i \in DOMAIN log[k] : /\ Seed(k).at <= log[k][i].t
                         /\ log[k][i].t < Seed(k).at + from_millis(Seed(k).per)}

\* C13: of the calls of a key in the first period after the creation of its
\* bucket, min(number of calls, count) are admitted: exactly count when at
\* least count calls are made, however they are spaced, and never more.
C13_FirstWindowExactlyCount ==
  \A k \in Seeded :
    Cardinality(FirstWindow(k) \cap Admits(k)) =
      Min(Cardinality(FirstWindow(k)), Seed(k).count)

\* C13 witness: more calls than count in the first period, at different
\* instants of it
C13_Witness ==
  \E k \in Seeded :
    /\ Seed(k).count = 1
    /\ Cardinality(FirstWindow(k)) = 3
    /\ Cardinality(FirstWindow(k) \cap Admits(k)) = 1
    /\ \E i, j \in FirstWindow(k) : log[k][i].t # log[k][j].t

\* --------------------------------------------------------------------- C14
\* a step keeps every bucket's tokens at 0 or more and moves no bucket's
\* last_refill_time back
C14_Step ==
  \A k \in DOMAIN rate_limits' :
    /\ rate_limits'[k].tokens >= 0
    /\ k \in DOMAIN rate_limits =>
         rate_limits'[k].last_refill_time >= rate_limits[k].last_refill_time

\* C14: in every reachable state every bucket has tokens >= 0, and no check
\* call (no step at all) decreases a bucket's last_refill_time.
C14_TokensNonNegativeLastRefillMonotone == [][C14_Step]_vars

\* C14 witness: a call refilled the bucket, moving last_refill_time forward,
\* and took its last token
C14_Witness ==
  \E k \in Seeded :
    \E i \in DOMAIN log[k] :
      /\ log[k][i].due /\ log[k][i].result = "admit"
      /\ log[k][i].left = 0
      /\ log[k][i].last > Seed(k).at
      /\ i = Len(log[k]) /\ rate_limits[k].tokens = 0

\* --------------------------------------------------------------------- C15
\* last_refill_time of the bucket of key k when its i-th call began
LastBefore(k, i) == IF i = 1 THEN Seed(k).at ELSE log[k][i - 1].last

\* the whole periods of key k elapsed at its i-th call since LastBefore
WholePeriods(k, i) ==
  duration_since(log[k][i].t, LastBefore(k, i)) \div from_millis(Seed(k).per)

\* the tokens the i-th call of key k credited: those after, the one it took
\* and those before
Credited(k, i) ==
  log[k][i].left + (IF log[k][i].result = "admit" THEN 1 ELSE 0) - log[k][i].pre

\* C15: a refill with elapsed = now - lastRefill changes nothing if elapsed <
\* period; otherwise it adds floor(elapsed / period) tokens and advances
\* lastRefill by exactly floor(elapsed / period) * period.  So after every
\* check now - lastRefill < period.  (Stated for periods > 0.)
C15_RefillWholePeriods ==
  \A k \in Seeded :
    Seed(k).per > 0 =>
      \A i \in DOMAIN log[k] :
        /\ Credited(k, i) = WholePeriods(k, i)
        /\ log[k][i].last =
             LastBefore(k, i) + WholePeriods(k, i) * from_millis(Seed(k).per)
        /\ log[k][i].t - log[k][i].last < from_millis(Seed(k).per)

\* the parts of C15 that hold: the tokens credited, and now - lastRefill <
\* period after every check
C15_CreditAndRemainder ==
  \A k \in Seeded :
    Seed(k).per > 0 =>
      \A i \in DOMAIN log[k] :
        /\ Credited(k, i) = WholePeriods(k, i)
        /\ log[k][i].t - log[k][i].last < from_millis(Seed(k).per)

\* --------------------------------------------------------------------- C16
\* the calls of key k admitted up to and with its i-th
AdmitsUpTo(k, i) == {j \in Admits(k) : j <= i}

\* the i-th call of key k balances: tokens remaining + admits so far =
\* count + floor((t - created) / period)
Balanced(k, i) ==
  log[k][i].left + Cardinality(AdmitsUpTo(k, i)) =
    Seed(k).count + (log[k][i].t - Seed(k).at) \div from_millis(Seed(k).per)

\* C16: for every bucket and every check at time t, tokens remaining + number
\* of admits so far = count + floor((t - created) / period), whatever the
\* number and timing of the earlier calls.  (Stated for periods > 0.)
C16_CreditByElapsedTimeOnly ==
  \A k \in Seeded :
    Seed(k).per > 0 => \A i \in DOMAIN log[k] : Balanced(k, i)

\* an instant that is a whole number of milliseconds
WholeMillis(t) == from_millis(as_millis(t)) = t

\* C16 holds for a key whose bucket was created, and whose calls were all
\* made, at whole milliseconds
C16_CreditAtWholeMillis ==
  \A k \in Seeded :
    (/\ Seed(k).per > 0
     /\ WholeMillis(Seed(k).at)
     /\ \A i \in DOMAIN log[k] : WholeMillis(log[k][i].t)) =>
      \A i \in DOMAIN log[k] : Balanced(k, i)

\* --------------------------------------------------------------------- C17
\* the instant of the call of key k before its i-th (the creation for the first)
PreviousCall(k, i) == IF i = 1 THEN Seed(k).at ELSE log[k][i - 1].t

InProgress == {r \in BagToSet(inflight) : r.pc = "locked"}

\* the check calls that have not started: their entry() is still to come
Waiting == {r \in BagToSet(inflight) : r.pc = "extracted"}

\* C18 as stated: a check call can start unless a call for the same key is in
\* progress, and a call in progress can complete: a call in progress for key A
\* never blocks a call for a different key B.
C18_OnlySameKeyBlocks ==
  /\ \A r \in Waiting :
       (\A q \in InProgress : q.key # r.key) => ENABLED CheckEntry(r)
  /\ \A r \in InProgress : ENABLED CheckTryAcquire(r)

\* C18 amended: a check call can start unless a call for a key of the same
\* shard of the map (the same key included) is in progress, and a call in
\* progress can complete; the calls for the keys of one shard, those for one
\* key among them, are mutually exclusive.
C18_OnlySameShardBlocks ==
  /\ \A r \in Waiting :
       (\A q \in InProgress : shard_of[q.key] # shard_of[r.key]) => ENABLED CheckEntry(r)
  /\ \A r \in InProgress : ENABLED CheckTryAcquire(r)
  /\ \A r \in Waiting :
       (\E q \in InProgress : shard_of[q.key] = shard_of[r.key]) => ~ENABLED CheckEntry(r)
  /\ \A s \in Shards :
       /\ Cardinality({q \in InProgress : shard_of[q.key] = s}) <= 1
       /\ \A q \in InProgress : shard_of[q.key] = s => inflight[q] = 1

\* C18 witness: a call for one key is in progress and a call for a key of
\* another shard, which has not started, can start
C18_Witness ==
  \E q \in InProgress, r \in Waiting :
    /\ q.key # r.key
    /\ shard_of[q.key] # shard_of[r.key]
    /\ ENABLED CheckEntry(r)

\* --------------------------------------------------------------------- C19
\* a step that ends a check call of key k with reject leaves the bucket of k
\* as it was, without a token, and had no refill due
C19_Step ==
  \A k \in Keys :
    (/\ Len(log'[k]) = Len(log[k]) + 1
     /\ log'[k][Len(log'[k])].result = "reject") =>
      /\ rate_limits'[k] = rate_limits[k]
      /\ rate_limits[k].tokens = 0
      /\ ~RefillDue(rate_limits[k], now)
      /\ ~log'[k][Len(log'[k])].due

\* C19: a check that returns reject leaves the key's bucket unchanged (tokens
\* stays 0, last_refill_time is not advanced), and reject is returned only
\* when no refill was due.
C19_RejectChangesNothing == [][C19_Step]_vars

\* C19 witness: a call was rejected part of the way through a period, and the
\* next call was admitted when that period ended, less than a period after
\* the reject
C19_Witness ==
  \E k \in Seeded :
    \E i \in DOMAIN log[k] :
      /\ log[k][i].result = "reject"
      /\ log[k][i].t > log[k][i].last
      /\ i + 1 \in DOMAIN log[k]
      /\ log[k][i + 1].result = "admit"
      /\ log[k][i + 1].t - log[k][i].t < from_millis(Seed(k).per)

\* --------------------------------------------------------------------- C20
\* the instants at which the bucket of key k was in the state its j-th call
\* found: from the call before (the creation for the first) to the j-th call
FoundAt(k, j) == PreviousCall(k, j) .. log[k][j].t

\* the calls of key k from its j-th on admitted in the interval [s, s + L]
AdmitsFrom(k, j, s, L) == {i \in Admits(k) : i >= j /\ log[k][i].t <= s + L}

====
